---- MODULE Spec2Model ----
(***************************************************************************)
(* Trading-journal client: SupabaseService (trades table, chart-image      *)
(* blobs, 30 s trades cache, legacy-id -> UUID mapping), the pure-Supabase *)
(* and the dual local/cloud ChartImageService built on it, the             *)
(* AuthProvider's auth state, and the drawdown figure of TaxAnalytics.     *)
(*                                                                         *)
(* Strings whose characters the code inspects (trade ids, UUIDs, file      *)
(* names) are sequences of UTF-16 code units, e.g. "Aa" is <<65, 97>>.     *)
(* 32-bit integers are pairs <<hi, lo>> of 16-bit limbs, so that the       *)
(* wrap-around of ((hash << 5) - hash) + char is computed exactly.         *)
(***************************************************************************)
EXTENDS Integers, Sequences, FiniteSets, TLC

\* --------------------------------------------------------------------------
\* Characters and hexadecimal text
\* --------------------------------------------------------------------------

\* Number.prototype.toString(16) digit: '0'..'9' then lowercase 'a'..'f'.
HexChar(d) == IF d < 10 THEN 48 + d ELSE 87 + d

\* [0-9a-f] under the /i flag.
IsHexChar(c) == \/ (c >= 48 /\ c <= 57)
                \/ (c >= 97 /\ c <= 102)
                \/ (c >= 65 /\ c <= 70)

\* parseInt(ch, 16) of one hexadecimal character.
HexVal(c) == IF c <= 57 THEN c - 48 ELSE IF c >= 97 THEN c - 87 ELSE c - 55

\* String.prototype.substr(start, len) / slice(start, start + len), 0-based.
Substr(s, start, len) ==
  LET n == IF start + len > Len(s) THEN Len(s) - start ELSE len
  IN  IF n <= 0 THEN << >> ELSE [i \in 1..n |-> s[start + i]]

\* Four hexadecimal digits of a 16-bit limb.
Hex4(w) == << HexChar(w \div 4096), HexChar((w \div 256) % 16),
              HexChar((w \div 16) % 16), HexChar(w % 16) >>

\* --------------------------------------------------------------------------
\* simpleHash and the two id -> UUID conversions
\* --------------------------------------------------------------------------

\* One loop iteration: hash = ((hash << 5) - hash) + char; hash = hash & hash.
\* (hash << 5) - hash is hash * 31 modulo 2^32.
HashStep(h, c) ==
  LET lo31 == h[2] * 31 + c
  IN  << (h[1] * 31 + (lo31 \div 65536)) % 65536, lo31 % 65536 >>

\* for (let i = 0; i < str.length; i++) from index i on.  The test on the new
\* hash only makes the evaluator compute it before the next iteration.
RECURSIVE HashLoop(_, _, _)
HashLoop(str, i, h) ==
  IF i > Len(str) THEN h
  ELSE LET hash == HashStep(h, str[i])
       IN  IF hash[1] >= 0 THEN HashLoop(str, i + 1, hash) ELSE hash

\* Math.abs of the signed 32-bit value held in <<hi, lo>>.
Abs32(h) ==
  IF h[1] < 32768 THEN h
  ELSE << (65535 - h[1] + (IF h[2] = 0 THEN 1 ELSE 0)) % 65536,
          (65536 - h[2]) % 65536 >>

\* Math.abs(hash).toString(16).padStart(8, '0'): at most 8 digits, so the
\* result is exactly the 8 digits of the two limbs.
simpleHash(str) ==
  LET a == Abs32(HashLoop(str, 1, <<0, 0>>))
  IN  Hex4(a[1]) \o Hex4(a[2])

\* /^[0-9a-f]{8}-[0-9a-f]{4}-[1-5][0-9a-f]{3}-[89ab][0-9a-f]{3}-[0-9a-f]{12}$/i
uuidRegexTest(id) ==
  /\ Len(id) = 36
  /\ \A i \in 1..36 :
       IF i \in {9, 14, 19, 24} THEN id[i] = 45
       ELSE IF i = 15 THEN id[i] >= 49 /\ id[i] <= 53
       ELSE IF i = 20 THEN id[i] \in {56, 57, 97, 98, 65, 66}
       ELSE IsHexChar(id[i])

\* /^[0-9a-f]{8}-[0-9a-f]{4}-[0-9a-f]{4}-[0-9a-f]{4}-[0-9a-f]{12}$/i
isUUIDFormat(id) ==
  /\ Len(id) = 36
  /\ \A i \in 1..36 :
       IF i \in {9, 14, 19, 24} THEN id[i] = 45 ELSE IsHexChar(id[i])

\* The salts '_salt1', '_salt2', '_salt3'.
Salt(k) == << 95, 115, 97, 108, 116, 48 + k >>

\* Array.prototype.join('-') of five parts.
JoinDash(p1, p2, p3, p4, p5) ==
  p1 \o <<45>> \o p2 \o <<45>> \o p3 \o <<45>> \o p4 \o <<45>> \o p5

\* convertToUUID with the fourth group taken from hash4 as it is, without
\* the variant bits.
convertToUUIDPlainVariant(id) ==
  IF uuidRegexTest(id) THEN id
  ELSE LET hash1 == simpleHash(id)
           hash2 == simpleHash(id \o Salt(1))
           hash3 == simpleHash(id \o Salt(2))
           hash4 == simpleHash(id \o Salt(3))
       IN  JoinDash(Substr(hash1, 0, 8),
                    Substr(hash2, 0, 4),
                    <<52>> \o Substr(hash3, 0, 3),
                    Substr(hash4, 0, 4),
                    Substr(hash1 \o hash2, 0, 12))

\* SupabaseService's convertToUUID.
convertToUUID(id) ==
  IF uuidRegexTest(id) THEN id
  ELSE LET hash1 == simpleHash(id)
           hash2 == simpleHash(id \o Salt(1))
           hash3 == simpleHash(id \o Salt(2))
           hash4 == simpleHash(id \o Salt(3))
       IN  JoinDash(Substr(hash1, 0, 8),
                    Substr(hash2, 0, 4),
                    <<52>> \o Substr(hash3, 0, 3),
                    <<HexChar(8 + (HexVal(hash4[1]) % 4))>> \o Substr(hash4, 1, 3),
                    Substr(hash1 \o hash2, 0, 12))

\* ChartImageService's own conversion (the private helper and the copy
\* inlined in attachChartImage are the same text).
convertTradeIdToUUID(tradeId) ==
  IF isUUIDFormat(tradeId) THEN tradeId
  ELSE LET hex == simpleHash(tradeId)
       IN  JoinDash(Substr(hex, 0, 8),
                    Substr(hex, 0, 4),
                    <<52>> \o Substr(hex, 1, 3),
                    <<56>> \o Substr(hex, 0, 3),
                    Substr(hex, 0, 12) \o <<48, 48, 48, 48>>)

\* --------------------------------------------------------------------------
\* Bounds and universes
\* --------------------------------------------------------------------------

\* Number of uuidv4() blob ids the model lets createChartImage draw.
MaxBlobs == 1

\* Longest list handed to saveAllTrades.
MaxList == 2

\* A behaviour makes at most MaxCalls service calls and ends with a call.
MaxCalls == 2

\* Longest id of the exhaustive part of the ids given to convertToUUID.
MaxIdLen == 3

\* Number of sign-in and sign-out calls and backend events in a behaviour.
MaxAuthCalls == 2

\* Most trades of the selected year given to TaxAnalytics.
MaxTrades == 3

\* Clock: Date.now() advances in steps of TickMs up to MaxNow.
TickMs == 30000
MaxNow == 30000

CACHE_DURATION == 30000

batchSize == 100

Null == "null"
User == "u1"

\* Trade ids the UI passes in: the legacy ids "Aa" and "BB" and the
\* UUID-shaped id "00000000-0000-0000-0000-000000000000".
IdAa == << 65, 97 >>
IdBB == << 66, 66 >>
IdZero == [i \in 1..36 |-> IF i \in {9, 14, 19, 24} THEN 45 ELSE 48]
TradeIds == {IdAa, IdBB, IdZero}

BlobIds == 1..MaxBlobs

\* An optional value (undefined / null or present) is the empty set or a
\* singleton.
None == {}
Some(x) == {x}
TheOne(S) == CHOOSE x \in S : TRUE

\* ChartImage records as far as the services read them.
InlineImage == [storage |-> "inline", blobId |-> None]
BlobImage(b) == [storage |-> "blob", blobId |-> Some(b)]
Images == {InlineImage} \cup {BlobImage(b) : b \in BlobIds}

\* The object {} as a chartAttachments value.
EmptyAttachments == [beforeEntry |-> None, afterExit |-> None]

\* chartAttachments values of the trades the UI submits: absent, a blob
\* image before entry, or an inline image before entry and a blob image
\* after exit.
InputAttachments ==
  {None}
    \cup {Some([beforeEntry |-> Some(BlobImage(b)), afterExit |-> None]) : b \in BlobIds}
    \cup {Some([beforeEntry |-> Some(InlineImage), afterExit |-> Some(BlobImage(b))]) :
            b \in BlobIds}

InputTrades ==
  [id : TradeIds, chartAttachments : InputAttachments]

\* The ids the services can meet: those above and the row ids made from them
\* (getAllTrades hands out a row id where idMappings has no legacy id for it).
RowIds == {convertToUUID(id) : id \in TradeIds}
KnownIds == TradeIds \cup RowIds \cup {convertToUUID(id) : id \in RowIds}

\* The two conversions on these ids, computed once.
convertToUUIDMemo == [id \in KnownIds |-> convertToUUID(id)]
convertTradeIdToUUIDMemo == [id \in KnownIds |-> convertTradeIdToUUID(id)]

\* Ids handed to convertToUUID on its own: every string of at most MaxIdLen
\* characters over '-', '0', 'A', 'B', 'a', the ids above with their row
\* ids, and UUID-shaped strings around the pattern's edges: upper case,
\* version 6, variant c, and a valid UUID followed by one more character.
IdChars == {45, 48, 65, 66, 97}
ShortIds == UNION { [1..n -> IdChars] : n \in 0..MaxIdLen }
UuidLike(version, variant, fill) ==
  [i \in 1..36 |-> IF i \in {9, 14, 19, 24} THEN 45
                   ELSE IF i = 15 THEN version
                   ELSE IF i = 20 THEN variant
                   ELSE fill]
ConvertInputs ==
  ShortIds \cup TradeIds \cup RowIds
    \cup { UuidLike(52, 65, 70), UuidLike(54, 56, 48), UuidLike(52, 99, 48),
           Append(UuidLike(52, 56, 48), 48) }

\* Return values, tagged by their JavaScript kind.
VNull == [kind |-> "null"]
VBool(b) == [kind |-> "bool", b |-> b]
VList(items) == [kind |-> "list", items |-> items]
VObj(o) == [kind |-> "object", o |-> o]

VARIABLES
  session,      \* the signed-in user's id, or Null
  trades,       \* table trades: set of rows, id is the primary key
  blobs,        \* table chart_image_blobs: set of rows, id is the primary key
  taxData,      \* table tax_data: set of rows, (user_id, year) is unique
  idMappings,   \* module-level Map legacy id -> uuid, in insertion order
  tradesCache,  \* SupabaseService.tradesCache: set of Map entries
  now,          \* Date.now()
  blobSeq,      \* number of uuidv4() blob ids drawn so far
  calls,        \* number of service calls made so far
  cacheStale,   \* history: the cache entry predates a successful change of trades
  last,         \* history: the last call, its result and what it did
  localBlobs,   \* the chart-image blobs in the browser's local database
  \* AuthProvider (AuthContext.tsx)
  authState,    \* useState: [user, session, loading, error]
  initializing, \* useState: true until initialization is marked finished
  listenerInitializing, \* `initializing` as the subscribed listener captured it
  mounted,      \* the component is mounted
  fallbackTimer,  \* the 2 s timer: "armed", "fired" or "cleared"
  initPc,       \* initializeAuth: "getSession" while awaiting it, then "done"
  authEvents,   \* auth events emitted and not yet delivered to the listener
  authPc,       \* the AuthProvider call in flight: "idle", "signIn", "signOut"
  authResult,   \* history: what the last AuthService call returned
  authCalls,    \* number of auth calls and backend events so far
  \* convertToUUID applied to one id
  legacyId,     \* the id handed to convertToUUID
  rowUuid,      \* what it returned, empty before the call
  \* TaxAnalytics
  yearTrades,   \* the trades of the selected year, in the order stored
  drawdown      \* the drawdown figure rendered, absent before the first render

serviceVars == << session, trades, blobs, taxData, idMappings, tradesCache, now,
                 blobSeq, calls, cacheStale, last, localBlobs >>

authVars == << authState, initializing, listenerInitializing, mounted,
               fallbackTimer, initPc, authEvents, authPc, authResult,
               authCalls >>

convertVars == << legacyId, rowUuid >>

taxVars == << yearTrades, drawdown >>

vars == << serviceVars, authVars, convertVars, taxVars >>

\* The mutable stores an operation threads through its steps.
Store == [trades |-> trades, blobs |-> blobs, taxData |-> taxData,
          idMappings |-> idMappings, tradesCache |-> tradesCache,
          blobSeq |-> blobSeq]

\* --------------------------------------------------------------------------
\* JavaScript Map (insertion ordered) as a sequence of <<key, value>>
\* --------------------------------------------------------------------------

MapHas(m, k) == \E i \in 1..Len(m) : m[i][1] = k

MapSet(m, k, v) ==
  IF MapHas(m, k)
  THEN [i \in 1..Len(m) |-> IF m[i][1] = k THEN << k, v >> ELSE m[i]]
  ELSE Append(m, << k, v >>)

MapDelete(m, k) == SelectSeq(m, LAMBDA e : e[1] # k)

\* --------------------------------------------------------------------------
\* Outcomes of a service call
\* --------------------------------------------------------------------------
\* A backend request either is answered ("ok"), is answered with an error
\* object ("error"), or its promise rejects ("throw").  An outcome records the
\* value returned (or that the call threw), whether the user id was missing,
\* the requests that failed, the write requests issued, notes about the path
\* taken, and the stores afterwards.

Failures == {"error", "throw"}

Ret(val, d, f, q, n) ==
  [val |-> val, threw |-> FALSE, unauth |-> FALSE, faults |-> f, reqs |-> q,
   note |-> n, d |-> d]

Throw(d, f, q, n) ==
  [val |-> VNull, threw |-> TRUE, unauth |-> FALSE, faults |-> f, reqs |-> q,
   note |-> n, d |-> d]

\* throw new Error(message)
ThrowMsg(message, d, q, n) ==
  [val |-> [kind |-> "error", message |-> message], threw |-> TRUE,
   unauth |-> FALSE, faults |-> {}, reqs |-> q, note |-> n, d |-> d]

Unauth(o) == [o EXCEPT !.unauth = TRUE]

\* A method body without its try/catch: the outcome passes through as it is.
Uncaught(raw, failureValue) == raw

\* try { ... } catch (error) { console.error(...); return failureValue }
Catch(raw, failureValue) ==
  IF raw.threw THEN [raw EXCEPT !.val = failureValue, !.threw = FALSE] ELSE raw

\* What the caller of a service call can see of its outcomes: the value
\* returned and the stores, with the write requests it issued.
Seen(outcomes) ==
  { [val |-> o.val, d |-> o.d, reqs |-> o.reqs] : o \in outcomes }

\* AuthService.getUserId(): the session's user, or null when there is no
\* session or supabase.auth.getUser() fails (getCurrentUser catches that).
getUserId == {session, Null}

\* AuthService.isAuthenticated(): !!session, false when getSession() fails.
isAuthenticated == {session # Null, FALSE}

\* --------------------------------------------------------------------------
\* Row <-> Trade conversion
\* --------------------------------------------------------------------------

\* x || {} on a chartAttachments value.
OrEmptyObject(opt) == IF opt = None THEN Some(EmptyAttachments) ELSE opt

\* dbRowToTrade: the first legacy id mapped to row.id in idMappings, else row.id.
dbRowToTrade(row, idm) ==
  LET hits == {i \in 1..Len(idm) : idm[i][2] = row.id}
      first == CHOOSE i \in hits : \A j \in hits : i <= j
      originalId == IF hits = {} THEN row.id ELSE idm[first][1]
  IN  [id |-> originalId,
       chartAttachments |-> OrEmptyObject(row.chart_attachments)]

\* tradeToDbRow's row; the idMappings.set(trade.id, uuid) it performs is
\* applied by the callers with MapSet.
tradeToDbRow(trade, userId) ==
  [id |-> convertToUUIDMemo[trade.id],
   user_id |-> userId,
   chart_attachments |-> OrEmptyObject(trade.chartAttachments)]

\* --------------------------------------------------------------------------
\* SupabaseService: trades
\* --------------------------------------------------------------------------

\* clearTradesCache(userId) with a user id: tradesCache.delete(`trades_${userId}`).
clearTradesCache(cache, userId) == {e \in cache : e.key # userId}

getAllTradesBody(d) ==
  UNION {
    IF userId = Null
    THEN { Unauth(Ret(VList({}), d, {}, {}, {})) }
    ELSE LET cached == {e \in d.tradesCache : e.key = userId}
         IN  IF cached # {} /\ (now - TheOne(cached).timestamp) < CACHE_DURATION
             THEN { Ret(VList(TheOne(cached).data), d, {}, {}, {"cache"}) }
             ELSE LET list == {dbRowToTrade(r, d.idMappings) :
                                 r \in {x \in d.trades : x.user_id = userId}}
                      entry == [key |-> userId, data |-> list, timestamp |-> now]
                      d1 == [d EXCEPT !.tradesCache = (@ \ cached) \cup {entry}]
                  IN  { Ret(VList(list), d1, {}, {}, {"db"}) }
                        \cup { Throw(d, {<< "trades", "select", k >>}, {}, {}) :
                                 k \in Failures }
    : userId \in getUserId }

getAllTrades(d) == { Catch(r, VList({})) : r \in getAllTradesBody(d) }

getTradeBody(id, d) ==
  UNION {
    IF userId = Null
    THEN { Unauth(Ret(VNull, d, {}, {}, {})) }
    ELSE LET uuid == convertToUUIDMemo[id]
             d1 == [d EXCEPT !.idMappings = MapSet(@, id, uuid)]
             found == {r \in d1.trades : r.id = uuid /\ r.user_id = userId}
         IN  \* .single(): no row is the error PGRST116, which is thrown too
             { IF found = {}
               THEN Throw(d1, {}, {}, {"PGRST116"})
               ELSE Ret(VObj(dbRowToTrade(TheOne(found), d1.idMappings)),
                        d1, {}, {}, {}) }
               \cup { Throw(d1, {<< "trades", "select", k >>}, {}, {}) : k \in Failures }
    : userId \in getUserId }

getTrade(id, d) == { Catch(r, VNull) : r \in getTradeBody(id, d) }

\* The existence check of saveTrade reads only `data`: an error answer is
\* taken for "no such row"; a rejected promise is caught like any throw.
saveTradeWrite(dbRow, userId, d1, checkFaults, existing) ==
  IF existing # {}
  THEN { Ret(VBool(TRUE),
             [d1 EXCEPT !.trades = (@ \ existing) \cup {dbRow},
                        !.tradesCache = clearTradesCache(@, userId)],
             checkFaults, {<< "trades", "update" >>}, {}) }
         \cup { Throw(d1, checkFaults \cup {<< "trades", "update", k >>},
                      {<< "trades", "update" >>}, {}) : k \in Failures }
  ELSE { IF \E r \in d1.trades : r.id = dbRow.id
         THEN Throw(d1, checkFaults \cup {<< "trades", "insert", "duplicate key" >>},
                    {<< "trades", "insert" >>}, {})
         ELSE Ret(VBool(TRUE),
                  [d1 EXCEPT !.trades = @ \cup {dbRow},
                             !.tradesCache = clearTradesCache(@, userId)],
                  checkFaults, {<< "trades", "insert" >>}, {}) }
         \cup { Throw(d1, checkFaults \cup {<< "trades", "insert", k >>},
                      {<< "trades", "insert" >>}, {}) : k \in Failures }

saveTradeBody(trade, d) ==
  UNION {
    IF userId = Null
    THEN { Unauth(Ret(VBool(FALSE), d, {}, {}, {})) }
    ELSE LET dbRow == tradeToDbRow(trade, userId)
             d1 == [d EXCEPT !.idMappings = MapSet(@, trade.id, dbRow.id)]
             found == {r \in d1.trades : r.id = dbRow.id /\ r.user_id = userId}
         IN  saveTradeWrite(dbRow, userId, d1, {}, found)
               \cup saveTradeWrite(dbRow, userId, d1,
                                   {<< "trades", "select", "error" >>}, {})
               \cup { Throw(d1, {<< "trades", "select", "throw" >>}, {}, {}) }
    : userId \in getUserId }

saveTrade(trade, d) == { Catch(r, VBool(FALSE)) : r \in saveTradeBody(trade, d) }

\* trades.map(trade => tradeToDbRow(trade, userId)): the idMappings.set calls.
RECURSIVE MapSetAll(_, _, _)
MapSetAll(m, list, i) ==
  IF i > Len(list) THEN m
  ELSE MapSetAll(MapSet(m, list[i].id, convertToUUIDMemo[list[i].id]), list, i + 1)

\* The insert loop of saveAllTrades, from 0-based index i on.
RECURSIVE insertBatches(_, _, _, _)
insertBatches(dbRows, i, userId, d) ==
  LET q == {<< "trades", "delete" >>, << "trades", "insert" >>}
  IN  IF i >= Len(dbRows)
      THEN { Ret(VBool(TRUE),
                 [d EXCEPT !.tradesCache = clearTradesCache(@, userId)], {}, q, {}) }
      ELSE LET hi == IF i + batchSize > Len(dbRows) THEN Len(dbRows) ELSE i + batchSize
               idx == (i + 1)..hi
               batch == {dbRows[j] : j \in idx}
               clash == \/ \E j, k \in idx : j # k /\ dbRows[j].id = dbRows[k].id
                        \/ \E j \in idx : \E r \in d.trades : r.id = dbRows[j].id
           IN  { Throw(d, {<< "trades", "insert", k >>}, q, {}) : k \in Failures }
                 \cup (IF clash
                       THEN { Throw(d, {<< "trades", "insert", "duplicate key" >>}, q, {}) }
                       ELSE insertBatches(dbRows, hi, userId,
                                          [d EXCEPT !.trades = @ \cup batch]))

saveAllTradesBody(list, d) ==
  UNION {
    IF userId = Null
    THEN { Unauth(Ret(VBool(FALSE), d, {}, {}, {})) }
    ELSE LET d0 == [d EXCEPT !.trades = {r \in @ : r.user_id # userId}]
         IN  { Throw(d, {<< "trades", "delete", k >>}, {<< "trades", "delete" >>}, {}) :
                 k \in Failures }
               \cup (IF Len(list) = 0
                     THEN { Ret(VBool(TRUE),
                                [d0 EXCEPT !.tradesCache = clearTradesCache(@, userId)],
                                {}, {<< "trades", "delete" >>}, {}) }
                     ELSE insertBatches(
                            [j \in 1..Len(list) |-> tradeToDbRow(list[j], userId)],
                            0, userId,
                            [d0 EXCEPT !.idMappings = MapSetAll(@, list, 1)]))
    : userId \in getUserId }

saveAllTrades(list, d) ==
  { Catch(r, VBool(FALSE)) : r \in saveAllTradesBody(list, d) }

deleteTradeBody(id, d) ==
  UNION {
    IF userId = Null
    THEN { Unauth(Throw(d, {}, {}, {})) }
    ELSE LET uuid == convertToUUIDMemo[id]
         IN  { Ret(VBool(TRUE),
                   [d EXCEPT !.trades = {r \in @ : ~(r.id = uuid /\ r.user_id = userId)},
                             !.idMappings = MapDelete(@, id)],
                   {}, {<< "trades", "delete" >>}, {}) }
               \cup { Throw(d, {<< "trades", "delete", k >>},
                            {<< "trades", "delete" >>}, {}) : k \in Failures }
    : userId \in getUserId }

deleteTrade(id, d) == { Catch(r, VBool(FALSE)) : r \in deleteTradeBody(id, d) }

\* --------------------------------------------------------------------------
\* SupabaseService: tax data (the single-row getters and upsert setters)
\* --------------------------------------------------------------------------

Years == {2024}
TaxPayloads == {"tax"}

getTaxDataBody(year, d) ==
  UNION {
    IF userId = Null
    THEN { Unauth(Throw(d, {}, {}, {})) }
    ELSE LET found == {r \in d.taxData : r.user_id = userId /\ r.year = year}
         IN  \* PGRST116 (no row) is not thrown: data || null
             { IF found = {} THEN Ret(VNull, d, {}, {}, {"PGRST116"})
               ELSE Ret(VObj(TheOne(found)), d, {}, {}, {}) }
               \cup { Throw(d, {<< "tax_data", "select", k >>}, {}, {}) : k \in Failures }
    : userId \in getUserId }

getTaxData(year, d) == { Catch(r, VNull) : r \in getTaxDataBody(year, d) }

saveTaxDataBody(year, data, d) ==
  UNION {
    IF userId = Null
    THEN { Unauth(Throw(d, {}, {}, {})) }
    ELSE LET row == [user_id |-> userId, year |-> year, data |-> data]
             old == {r \in d.taxData : r.user_id = userId /\ r.year = year}
         IN  { Ret(VBool(TRUE), [d EXCEPT !.taxData = (@ \ old) \cup {row}],
                   {}, {<< "tax_data", "upsert" >>}, {}) }
               \cup { Throw(d, {<< "tax_data", "upsert", k >>},
                            {<< "tax_data", "upsert" >>}, {}) : k \in Failures }
    : userId \in getUserId }

saveTaxData(year, data, d) ==
  { Catch(r, VBool(FALSE)) : r \in saveTaxDataBody(year, data, d) }

\* --------------------------------------------------------------------------
\* SupabaseService: chart image blobs
\* --------------------------------------------------------------------------

\* imageBlob.data is base64 text, or text atob() rejects.
saveChartImageBlobBody(imageBlob, d) ==
  UNION {
    IF userId = Null
    THEN { Unauth(Throw(d, {}, {}, {})) }
    ELSE IF imageBlob.data # "base64"
    THEN { Throw(d, {}, {}, {"Failed to convert base64 data"}) }
    ELSE LET row == [id |-> imageBlob.id, user_id |-> userId,
                     trade_id |-> imageBlob.trade_id]
             q == {<< "chart_image_blobs", "insert" >>}
         IN  { IF \E r \in d.blobs : r.id = row.id
               THEN Throw(d, {<< "chart_image_blobs", "insert", "duplicate key" >>}, q, {})
               ELSE Ret(VBool(TRUE), [d EXCEPT !.blobs = @ \cup {row}], {}, q, {}) }
               \cup { Throw(d, {<< "chart_image_blobs", "insert", k >>}, q, {}) :
                        k \in Failures }
    : userId \in getUserId }

saveChartImageBlob(imageBlob, d) ==
  { Catch(r, VBool(FALSE)) : r \in saveChartImageBlobBody(imageBlob, d) }

\* Two selects: the metadata, then the binary data.
getChartImageBlobBody(blobId, d) ==
  UNION {
    IF userId = Null
    THEN { Unauth(Throw(d, {}, {}, {})) }
    ELSE LET found == {r \in d.blobs : r.user_id = userId /\ r.id = blobId}
         IN  { IF found = {} THEN Ret(VNull, d, {}, {}, {"PGRST116"})
               ELSE Ret(VObj(TheOne(found)), d, {}, {}, {}) }
               \cup { Throw(d, {<< "chart_image_blobs", "select", k >>}, {}, {}) :
                        k \in Failures }
               \cup (IF found = {} THEN {}
                     ELSE { Throw(d, {<< "chart_image_blobs", "select data", k >>}, {}, {}) :
                              k \in Failures })
    : userId \in getUserId }

getChartImageBlob(blobId, d) ==
  { Catch(r, VNull) : r \in getChartImageBlobBody(blobId, d) }

getAllChartImageBlobsBody(d) ==
  UNION {
    IF userId = Null
    THEN { Unauth(Throw(d, {}, {}, {})) }
    ELSE { Ret(VList({r \in d.blobs : r.user_id = userId}), d, {}, {}, {}) }
           \cup { Throw(d, {<< "chart_image_blobs", "select", k >>}, {}, {}) :
                    k \in Failures }
    : userId \in getUserId }

getAllChartImageBlobs(d) ==
  { Catch(r, VList({})) : r \in getAllChartImageBlobsBody(d) }

deleteChartImageBlobBody(blobId, d) ==
  UNION {
    IF userId = Null
    THEN { Unauth(Throw(d, {}, {}, {})) }
    ELSE LET q == {<< "chart_image_blobs", "delete" >>}
         IN  { Ret(VBool(TRUE),
                   [d EXCEPT !.blobs = {r \in @ : ~(r.user_id = userId /\ r.id = blobId)}],
                   {}, q, {}) }
               \cup { Throw(d, {<< "chart_image_blobs", "delete", k >>}, q, {}) :
                        k \in Failures }
    : userId \in getUserId }

deleteChartImageBlob(blobId, d) ==
  { Catch(r, VBool(FALSE)) : r \in deleteChartImageBlobBody(blobId, d) }

\* --------------------------------------------------------------------------
\* SupabaseService.clearAllData
\* --------------------------------------------------------------------------

tables == << "trades", "chart_image_blobs", "user_preferences", "portfolio_data",
             "tax_data", "milestones_data", "misc_data", "trade_settings",
             "dashboard_config", "commentary_data" >>

\* supabase.from(table).delete().eq('user_id', userId) on the modelled tables.
deleteUserRows(table, userId, d) ==
  CASE table = "trades" -> [d EXCEPT !.trades = {r \in @ : r.user_id # userId}]
    [] table = "chart_image_blobs" -> [d EXCEPT !.blobs = {r \in @ : r.user_id # userId}]
    [] table = "tax_data" -> [d EXCEPT !.taxData = {r \in @ : r.user_id # userId}]
    [] OTHER -> d

RECURSIVE clearTables(_, _, _, _)
clearTables(i, userId, d, q) ==
  IF i > Len(tables)
  THEN { Ret(VBool(TRUE), d, {}, q, {}) }
  ELSE LET q1 == q \cup {<< tables[i], "delete" >>}
       IN  { Throw(d, {<< tables[i], "delete", k >>}, q1, {}) : k \in Failures }
             \cup clearTables(i + 1, userId, deleteUserRows(tables[i], userId, d), q1)

clearAllDataBody(d) ==
  UNION {
    IF userId = Null
    THEN { Unauth(Throw(d, {}, {}, {})) }
    ELSE clearTables(1, userId, d, {})
    : userId \in getUserId }

clearAllData(d) == { Catch(r, VBool(FALSE)) : r \in clearAllDataBody(d) }

\* --------------------------------------------------------------------------
\* chartImageUtils: validateImageFile and createChartImage
\* --------------------------------------------------------------------------

MAX_FILE_SIZE == 10 * 1024 * 1024
ALLOWED_TYPES == {"image/png", "image/jpeg", "image/webp"}
\* '.png', '.jpg', '.jpeg', '.webp'
ALLOWED_EXTENSIONS == { << 46, 112, 110, 103 >>, << 46, 106, 112, 103 >>,
                        << 46, 106, 112, 101, 103 >>, << 46, 119, 101, 98, 112 >> }

toLowerCase(s) == [i \in 1..Len(s) |-> IF s[i] >= 65 /\ s[i] <= 90 THEN s[i] + 32 ELSE s[i]]

\* String.prototype.lastIndexOf(ch): 0-based, -1 when absent.
lastIndexOf(s, c) ==
  LET at == {i \in 1..Len(s) : s[i] = c}
  IN  IF at = {} THEN -1 ELSE (CHOOSE i \in at : \A j \in at : j <= i) - 1

\* String.prototype.substring(start): a negative start counts as 0.
substring(s, start) ==
  LET from == IF start < 0 THEN 0 ELSE start
  IN  Substr(s, from, Len(s) - from)

validateImageFile(file) ==
  IF file.size > MAX_FILE_SIZE
  THEN [isValid |-> FALSE, error |-> "File size exceeds maximum allowed size"]
  ELSE IF file.type \notin ALLOWED_TYPES
  THEN [isValid |-> FALSE, error |-> "File type is not supported"]
  ELSE IF substring(toLowerCase(file.name), lastIndexOf(file.name, 46))
            \notin ALLOWED_EXTENSIONS
  THEN [isValid |-> FALSE, error |-> "File extension is not supported"]
  ELSE [isValid |-> TRUE, error |-> ""]

\* Files offered to attachChartImage: a small and a maximal PNG named "a.PNG",
\* an oversized one, a GIF, a PNG named "a.gif" and a PNG named "png".
File(size, type, name) == [size |-> size, type |-> type, name |-> name]
Files ==
  { File(1024, "image/png", << 97, 46, 80, 78, 71 >>),
    File(MAX_FILE_SIZE, "image/png", << 97, 46, 80, 78, 71 >>),
    File(MAX_FILE_SIZE + 1, "image/png", << 97, 46, 80, 78, 71 >>),
    File(1024, "image/gif", << 97, 46, 103, 105, 102 >>),
    File(1024, "image/png", << 97, 46, 103, 105, 102 >>),
    File(1024, "image/png", << 112, 110, 103 >>) }

\* createChartImage without the validateImageFile check.
createChartImageUnvalidated(file, d) ==
  { ThrowMsg("Failed to load image", d, {}, {}) }
    \cup { Ret(VObj(BlobImage(d.blobSeq + 1)),
               [d EXCEPT !.blobSeq = @ + 1], {}, {}, {}) }

\* createChartImage: validation, then compression (a failure falls back to
\* the original file), getImageDimensions (may reject), then blobId: uuidv4().
createChartImage(file, d) ==
  LET validation == validateImageFile(file)
  IN  IF ~validation.isValid
      THEN { ThrowMsg(validation.error, d, {}, {"invalid file"}) }
      ELSE { ThrowMsg("Failed to load image", d, {}, {}) }
             \cup { Ret(VObj(BlobImage(d.blobSeq + 1)),
                        [d EXCEPT !.blobSeq = @ + 1], {}, {}, {}) }

\* --------------------------------------------------------------------------
\* ChartImageService (pure Supabase)
\* --------------------------------------------------------------------------

AttachResult(success, error, image) ==
  VObj([success |-> success, error |-> error, chartImage |-> image])

AttachFail(error, d, q, n) == Ret(AttachResult(FALSE, error, None), d, {}, q, n)

\* catch (error) { return { success: false, error: error.message } }
AttachCatch(raw) ==
  IF raw.threw
  THEN [raw EXCEPT !.val = AttachResult(FALSE, raw.val.message, None),
                   !.threw = FALSE]
  ELSE raw

\* attachChartImage not looking at what saveChartImageBlob returned.
attachSaveBlobUnchecked(tradeId, image, d, q, n) ==
  LET convertedTradeId == convertTradeIdToUUIDMemo[tradeId]
      supabaseImageBlob == [id |-> TheOne(image.blobId),
                            trade_id |-> convertedTradeId,
                            data |-> "base64"]
  IN  { Ret(AttachResult(TRUE, "", Some(image)), o.d, {}, q \cup o.reqs, n)
        : o \in Seen(saveChartImageBlob(supabaseImageBlob, d)) }

\* From saveChartImageBlob on.  The reads that follow a successful insert
\* (two getChartImageBlob around a 1 s wait, getChartImageDataUrl, the 5 s
\* timer) change no store and their results are only logged.
attachSaveBlob(tradeId, image, d, q, n) ==
  LET convertedTradeId == convertTradeIdToUUIDMemo[tradeId]
      supabaseImageBlob == [id |-> TheOne(image.blobId),
                            trade_id |-> convertedTradeId,
                            data |-> "base64"]
  IN  { IF o.val = VBool(TRUE)
        THEN Ret(AttachResult(TRUE, "", Some(image)), o.d, {}, q \cup o.reqs,
                 n \cup {"blob saved"})
        ELSE AttachFail("Failed to save image to cloud storage", o.d,
                        q \cup o.reqs, n \cup {"blob not saved"})
        : o \in Seen(saveChartImageBlob(supabaseImageBlob, d)) }

attachVerify(tradeId, image, d, q, n) ==
  UNION {
    IF o.val = VNull
    THEN { AttachFail("Trade not found in cloud storage after conversion", o.d, q, n) }
    ELSE attachSaveBlob(tradeId, image, o.d, q, n \cup {"trade verified"})
    : o \in Seen(getTrade(tradeId, d)) }

attachSaveTrade(tradeId, trade, image, d, n) ==
  UNION {
    IF o.val = VBool(TRUE)
    THEN attachVerify(tradeId, image, o.d, o.reqs, n)
    ELSE { AttachFail("Failed to save trade to cloud storage", o.d, o.reqs, n) }
    : o \in Seen(saveTrade(trade, d)) }

attachAuthenticated(tradeId, image, d) ==
  UNION {
    IF o.val = VNull
    THEN { AttachFail("Trade not found in cloud storage", o.d, {}, {"authenticated"}) }
    ELSE attachSaveTrade(tradeId, o.val.o, image, o.d,
                         {"authenticated", "trade found"})
    : o \in Seen(getTrade(tradeId, d)) }

attachChartImageBody(tradeId, file, d) ==
  UNION {
    IF c.threw THEN { c }
    ELSE { ThrowMsg("Failed to read file", c.d, {}, {}) }
           \cup UNION {
                  IF ~auth
                  THEN { Unauth(AttachFail(
                           "User must be authenticated to upload chart images",
                           c.d, {}, {})) }
                  ELSE attachAuthenticated(tradeId, c.val.o, c.d)
                  : auth \in isAuthenticated }
    : c \in createChartImage(file, d) }

attachChartImage(tradeId, file, d) ==
  { AttachCatch(r) : r \in attachChartImageBody(tradeId, file, d) }

deleteChartImageBody(chartImage, d) ==
  IF chartImage.storage = "blob" /\ chartImage.blobId # None
  THEN UNION {
         IF ~auth
         THEN { Unauth(Ret(VBool(TRUE), d, {}, {}, {})) }
         ELSE { Ret(VBool(TRUE), o.d, {}, o.reqs,
                    IF o.val = VBool(TRUE) THEN {"blob deleted"}
                    ELSE {"blob not deleted"})
                : o \in Seen(deleteChartImageBlob(TheOne(chartImage.blobId), d)) }
         : auth \in isAuthenticated }
  ELSE { Ret(VBool(TRUE), d, {}, {}, {}) }

deleteChartImage(chartImage, d) ==
  { Catch(r, VBool(FALSE)) : r \in deleteChartImageBody(chartImage, d) }

Counts(cleaned, errors) == VObj([cleaned |-> cleaned, errors |-> errors])

\* The deletion inside the loop is commented out in the source ("TEMPORARILY
\* DISABLE actual deletion for debugging"): cleaned and errors stay 0.
cleanupOrphanedBlobsBody(d) ==
  UNION {
    IF ~auth
    THEN { Unauth(Ret(Counts(0, 0), d, {}, {}, {})) }
    ELSE UNION { {
           LET allBlobs == ob.val.items
               allTrades == ot.val.items
               tradeIds == {t.id : t \in allTrades}
                             \cup {convertTradeIdToUUIDMemo[t.id] : t \in allTrades}
               orphaned == {b \in allBlobs : b.trade_id \notin tradeIds}
           IN  Ret(Counts(0, 0), ot.d, {}, {},
                   IF orphaned # {} THEN {"would delete"} ELSE {})
           : ot \in Seen(getAllTrades(ob.d)) }
           : ob \in Seen(getAllChartImageBlobs(d)) }
    : auth \in isAuthenticated }

cleanupOrphanedBlobs(d) ==
  { Catch(r, Counts(0, 1)) : r \in cleanupOrphanedBlobsBody(d) }

\* attachment.storage === 'blob' && attachment.blobId && !blobIds.has(attachment.blobId)
isOrphaned(slot, blobIds) ==
  /\ slot # None
  /\ TheOne(slot).storage = "blob"
  /\ TheOne(slot).blobId # None
  /\ TheOne(TheOne(slot).blobId) \notin blobIds

\* The loop body's updatedTrade for a trade that needs an update.
cleanedTrade(trade, blobIds) ==
  LET a == TheOne(trade.chartAttachments)
      updatedAttachments ==
        [beforeEntry |-> IF isOrphaned(a.beforeEntry, blobIds) THEN None ELSE a.beforeEntry,
         afterExit |-> IF isOrphaned(a.afterExit, blobIds) THEN None ELSE a.afterExit]
      hasRemainingAttachments ==
        updatedAttachments.beforeEntry # None \/ updatedAttachments.afterExit # None
  IN  [trade EXCEPT !.chartAttachments =
         IF hasRemainingAttachments THEN Some(updatedAttachments) ELSE None]

needsUpdate(trade, blobIds) ==
  /\ trade.chartAttachments # None
  /\ \/ isOrphaned(TheOne(trade.chartAttachments).beforeEntry, blobIds)
     \/ isOrphaned(TheOne(trade.chartAttachments).afterExit, blobIds)

\* for (const trade of allTrades) { ... }, in any order of the list.
RECURSIVE cleanupLoop(_, _, _, _, _, _)
cleanupLoop(todo, blobIds, d, cleaned, errors, q) ==
  IF todo = {}
  THEN { Ret(Counts(cleaned, errors), d, {}, q, {}) }
  ELSE UNION {
         IF ~needsUpdate(trade, blobIds)
         THEN cleanupLoop(todo \ {trade}, blobIds, d, cleaned, errors, q)
         ELSE UNION {
                IF o.val = VBool(TRUE)
                THEN cleanupLoop(todo \ {trade}, blobIds, o.d, cleaned + 1, errors,
                                 q \cup o.reqs)
                ELSE cleanupLoop(todo \ {trade}, blobIds, o.d, cleaned, errors + 1,
                                 q \cup o.reqs)
                : o \in Seen(saveTrade(cleanedTrade(trade, blobIds), d)) }
         : trade \in todo }

cleanupOrphanedAttachmentsBody(d) ==
  UNION {
    IF ~auth
    THEN { Unauth(Ret(Counts(0, 0), d, {}, {}, {})) }
    ELSE UNION { UNION {
           cleanupLoop(ot.val.items, {b.id : b \in ob.val.items}, ob.d, 0, 0, {})
           : ob \in Seen(getAllChartImageBlobs(ot.d)) }
           : ot \in Seen(getAllTrades(d)) }
    : auth \in isAuthenticated }

cleanupOrphanedAttachments(d) ==
  { Catch(r, Counts(0, 1)) : r \in cleanupOrphanedAttachmentsBody(d) }

\* --------------------------------------------------------------------------
\* DatabaseService: the local (IndexedDB) store of chart-image blobs
\* --------------------------------------------------------------------------
\* An outcome is the value returned and the local store afterwards.

\* put(imageBlob): true once the blob is stored under its id, false when the
\* write failed (the callers test the boolean).
DatabaseService_saveChartImageBlob(imageBlob, local) ==
  { [val |-> TRUE,
     local |-> {b \in local : b.id # imageBlob.id} \cup {imageBlob}],
    [val |-> FALSE, local |-> local] }

\* get(blobId): the stored blob, or null.
DatabaseService_getChartImageBlob(blobId, local) ==
  LET found == {b \in local : b.id = blobId}
  IN  { [val |-> IF found = {} THEN VNull ELSE VObj(TheOne(found)),
         local |-> local] }

DatabaseService_deleteChartImageBlob(blobId, local) ==
  { [val |-> TRUE, local |-> {b \in local : b.id # blobId}],
    [val |-> FALSE, local |-> local] }

\* --------------------------------------------------------------------------
\* ChartImageService (dual local/cloud storage)
\* --------------------------------------------------------------------------
\* Outcomes carry the local store afterwards as well.

WithLocal(o, local) ==
  [val |-> o.val, threw |-> o.threw, unauth |-> o.unauth, faults |-> o.faults,
   reqs |-> o.reqs, note |-> o.note, d |-> o.d, local |-> local]

\* The cloud save of attachChartImage with its result deciding the call's.
dualAttachCloudChecked(tradeId, image, d, local) ==
  LET supabaseImageBlob == [id |-> TheOne(image.blobId), trade_id |-> tradeId,
                            data |-> "base64"]
  IN  { IF o.val = VBool(TRUE)
        THEN WithLocal(Ret(AttachResult(TRUE, "", Some(image)), o.d, {}, o.reqs,
                           {"local saved", "cloud saved"}), local)
        ELSE WithLocal(AttachFail("Failed to save image to cloud storage", o.d,
                                  o.reqs, {"local saved", "cloud failed"}), local)
        : o \in Seen(saveChartImageBlob(supabaseImageBlob, d)) }

\* Lines 49-76: the base64 conversion (may throw) and
\* SupabaseService.saveChartImageBlob inside their own try/catch; whatever
\* happens there is logged and the call goes on to success: true.
dualAttachCloud(tradeId, image, d, local) ==
  LET supabaseImageBlob == [id |-> TheOne(image.blobId), trade_id |-> tradeId,
                            data |-> "base64"]
      done(dd, q, n) ==
        WithLocal(Ret(AttachResult(TRUE, "", Some(image)), dd, {}, q,
                      {"local saved"} \cup n), local)
  IN  { done(d, {}, {"cloud failed"}) }
        \cup { done(o.d, o.reqs,
                    IF o.val = VBool(TRUE) THEN {"cloud saved"} ELSE {"cloud failed"})
               : o \in Seen(saveChartImageBlob(supabaseImageBlob, d)) }

\* Lines 26-78, for the record createChartImage made.
dualAttachBlob(tradeId, image, d, local) ==
  IF image.storage = "blob" /\ image.blobId # None
  THEN LET imageBlob == [id |-> TheOne(image.blobId), tradeId |-> tradeId]
       IN  UNION {
             IF ~s.val
             THEN { WithLocal(AttachFail("Failed to save image blob to local database",
                                         d, {}, {"local failed"}), s.local) }
             ELSE UNION {
                    IF auth
                    THEN dualAttachCloud(tradeId, image, d, s.local)
                    ELSE { WithLocal(Ret(AttachResult(TRUE, "", Some(image)), d, {}, {},
                                         {"local saved"}), s.local) }
                    : auth \in isAuthenticated }
             : s \in DatabaseService_saveChartImageBlob(imageBlob, local) }
  ELSE { WithLocal(Ret(AttachResult(TRUE, "", Some(image)), d, {}, {}, {}), local) }

dualAttachChartImageBody(tradeId, file, d, local) ==
  UNION {
    IF c.threw THEN { WithLocal(c, local) }
    ELSE dualAttachBlob(tradeId, c.val.o, c.d, local)
    : c \in createChartImage(file, d) }

dualAttachChartImage(tradeId, file, d, local) ==
  { WithLocal(AttachCatch(r), r.local)
    : r \in dualAttachChartImageBody(tradeId, file, d, local) }

\* URL.createObjectURL(blob.data) for the blob with this id.
ObjectUrl(blobId) == VObj([url |-> "blob:", blobId |-> blobId])

DualRet(val, d, local, n) == WithLocal(Ret(val, d, {}, {}, n), local)

\* Lines 104-138: SupabaseService.getChartImageBlob when the user is
\* authenticated; a blob found there is decoded (atob may throw, which the
\* inner catch logs) and saved to the local database, the result of that
\* save not being looked at.
dualGetFromCloud(blobId, d, local, n) ==
  UNION {
    IF ~auth
    THEN { DualRet(VNull, d, local, n) }
    ELSE UNION {
           IF o.val = VNull
           THEN { DualRet(VNull, o.d, local, n \cup {"cloud asked"}) }
           ELSE { DualRet(VNull, o.d, local, n \cup {"cloud asked", "decode failed"}) }
                  \cup { DualRet(ObjectUrl(blobId), o.d, s.local,
                                 n \cup {"cloud asked", "cloud hit"}
                                   \cup (IF s.val THEN {"local saved"}
                                         ELSE {"local save failed"}))
                         : s \in DatabaseService_saveChartImageBlob(
                                   [id |-> o.val.o.id, tradeId |-> o.val.o.trade_id],
                                   local) }
           : o \in Seen(getChartImageBlob(blobId, d)) }
    : auth \in isAuthenticated }

\* The blob branch asking the cloud without looking at the local database.
dualGetBlobCloudFirst(blobId, d, local) ==
  dualGetFromCloud(blobId, d, local, {})

\* Lines 98-144: the local database first, the cloud only for a blob that
\* is not there.
dualGetBlob(blobId, d, local) ==
  UNION {
    IF l.val # VNull
    THEN { DualRet(ObjectUrl(blobId), d, l.local, {"local hit"}) }
    ELSE dualGetFromCloud(blobId, d, l.local, {"local miss"})
    : l \in DatabaseService_getChartImageBlob(blobId, local) }

\* getImageDataUrl for the inline images, which carry their data.
dualGetChartImageDataUrl(chartImage, d, local) ==
  IF chartImage.storage = "inline"
  THEN { DualRet(VObj([url |-> "data:", blobId |-> None]), d, local, {}) }
  ELSE IF chartImage.storage = "blob" /\ chartImage.blobId # None
  THEN dualGetBlob(TheOne(chartImage.blobId), d, local)
  ELSE { DualRet(VNull, d, local, {}) }

\* Lines 156-179: the local blob is deleted; a failed delete is logged and
\* the call returns true all the same.
dualDeleteChartImage(chartImage, d, local) ==
  IF chartImage.storage = "blob" /\ chartImage.blobId # None
  THEN { DualRet(VBool(TRUE), d, s.local,
                 IF s.val THEN {"deleted"} ELSE {"not deleted"})
         : s \in DatabaseService_deleteChartImageBlob(TheOne(chartImage.blobId), local) }
  ELSE { DualRet(VBool(TRUE), d, local, {}) }

\* --------------------------------------------------------------------------
\* AuthProvider (AuthContext.tsx)
\* --------------------------------------------------------------------------

\* Everything of the services but the backend session.
dataVars == << trades, blobs, taxData, idMappings, tradesCache, now, blobSeq,
               calls, cacheStale, last, localBlobs >>

\* { user: null, session: null, loading: false, error: null }
SignedOutState == [user |-> Null, session |-> Null, loading |-> FALSE, error |-> Null]

\* { user: session.user, session, loading: false, error: null }
SessionState(s) == [user |-> s, session |-> s, loading |-> FALSE, error |-> Null]

AuthEvent(event, s) == [event |-> event, session |-> s]

\* The return paths of initializeAuth once getSession has settled: an error
\* answer, a session, no session, or a rejection (the catch).
InitializeAuthPaths ==
  { [pc |-> "session error", state |-> SignedOutState],
    [pc |-> "thrown", state |-> SignedOutState] }
    \cup (IF session # Null
          THEN { [pc |-> "session restored", state |-> SessionState(session)] }
          ELSE { [pc |-> "no session", state |-> SignedOutState] })

\* A fallback timer whose callback changes nothing.
fallbackTimerIdle(state) == state

\* The fallback timer's callback: loading: false, setInitializing(false).
fallbackTimerFired(state) ==
  [authState |-> [state.authState EXCEPT !.loading = FALSE],
   initializing |-> FALSE]

\* The onAuthStateChange callback, `init` being the value of `initializing`
\* it closed over.
onAuthStateChange(ev, prev, init) ==
  IF init THEN prev
  ELSE IF ev.event = "SIGNED_OUT" THEN SignedOutState
  ELSE IF ev.event = "SIGNED_IN"
  THEN IF ev.session # Null THEN SessionState(ev.session) ELSE prev
  ELSE IF ev.event = "TOKEN_REFRESHED"
  THEN IF ev.session # Null
       THEN [prev EXCEPT !.user = ev.session, !.session = ev.session,
                         !.loading = FALSE, !.error = Null]
       ELSE prev
  ELSE IF ev.event = "INITIAL_SESSION" THEN prev
  ELSE [prev EXCEPT !.loading = FALSE]

\* setAuthState(prev => ({ ...prev, loading: true, error: null }))
StartLoading(prev) == [prev EXCEPT !.loading = TRUE, !.error = Null]

\* --------------------------------------------------------------------------
\* TaxAnalytics: the drawdown figure (accrual basis)
\* --------------------------------------------------------------------------

\* Trades of the selected year as far as the figure reads them: the date (a
\* day number), positionStatus and cummPf, which may be missing.
PositionStatuses == {"Closed", "Partial", "Open"}
CummPfValues == {-2, -1, 1}
TaxTrades == [date : 1..2, positionStatus : PositionStatuses,
              cummPf : {None} \cup {Some(v) : v \in CummPfValues}]
TaxTradeLists == UNION { [1..n -> TaxTrades] : n \in 0..MaxTrades }

\* Array.prototype.sort((a, b) => a.date - b.date): stable, so trades of one
\* date keep their order.  Insertion of t behind the last trade not later
\* than it.
InsertByDate(sorted, t) ==
  LET k == Cardinality({i \in 1..Len(sorted) : sorted[i].date <= t.date})
  IN  SubSeq(sorted, 1, k) \o << t >> \o SubSeq(sorted, k + 1, Len(sorted))

RECURSIVE SortByDate(_)
SortByDate(seq) ==
  IF seq = << >> THEN << >>
  ELSE InsertByDate(SortByDate(SubSeq(seq, 1, Len(seq) - 1)), seq[Len(seq)])

\* closedTrades: Closed or Partial, sorted by date.
closedTrades(tradesForYear) ==
  SortByDate(SelectSeq(tradesForYear,
                       LAMBDA t : t.positionStatus \in {"Closed", "Partial"}))

\* cummPfs: the cummPf of those trades that is a number.
cummPfs(tradesForYear) ==
  LET numbers == SelectSeq(closedTrades(tradesForYear), LAMBDA t : t.cummPf # None)
  IN  [i \in 1..Len(numbers) |-> TheOne(numbers[i].cummPf)]

\* The forEach over cummPfs from index i on.
RECURSIVE drawdownLoop(_, _, _, _)
drawdownLoop(pfs, i, runningMax, maxDrawdownPoints) ==
  IF i > Len(pfs) THEN maxDrawdownPoints
  ELSE LET newMax == IF pfs[i] > runningMax THEN pfs[i] ELSE runningMax
           ddPoints == newMax - pfs[i]
       IN  drawdownLoop(pfs, i + 1, newMax,
                        IF newMax > 0 /\ ddPoints > maxDrawdownPoints
                        THEN ddPoints ELSE maxDrawdownPoints)

\* const drawdown = maxDrawdownPoints
drawdownFigure(tradesForYear) ==
  LET pfs == cummPfs(tradesForYear)
  IN  drawdownLoop(pfs, 1, IF Len(pfs) > 0 THEN pfs[1] ELSE 0, 0)

\* --------------------------------------------------------------------------
\* Components at rest
\* --------------------------------------------------------------------------

\* useState's initial values, before the component is mounted.
InitialAuthState == [user |-> Null, session |-> Null, loading |-> TRUE, error |-> Null]

InitAuthIdle ==
  /\ authState = InitialAuthState
  /\ initializing = TRUE
  /\ listenerInitializing = TRUE
  /\ mounted = FALSE
  /\ fallbackTimer = "cleared"
  /\ initPc = "done"
  /\ authEvents = << >>
  /\ authPc = "idle"
  /\ authResult = "none"
  /\ authCalls = 0

InitConvertIdle ==
  /\ legacyId = << >>
  /\ rowUuid = << >>

InitTaxIdle ==
  /\ yearTrades = << >>
  /\ drawdown = None

\* --------------------------------------------------------------------------
\* The state machine
\* --------------------------------------------------------------------------

NoCall == [op |-> "none", arg |-> << >>, val |-> VNull, threw |-> FALSE,
           unauth |-> FALSE, faults |-> {}, reqs |-> {}, note |-> {}]

\* What the cloud database may hold when the page loads, written there by
\* earlier sessions of this program: nothing; the trade "Aa"; the trade "Aa"
\* with the image attachChartImage stored for it (blob 1, saved on the trade
\* by the upload component); that blob alone, its trade since deleted.
StoredTrade(t) == tradeToDbRow(t, User)
StoredBlob(b, tradeId) ==
  [id |-> b, user_id |-> User, trade_id |-> convertTradeIdToUUIDMemo[tradeId]]
InitialDatabases ==
  { [trades |-> {}, blobs |-> {}, blobSeq |-> 0],
    [trades |-> {StoredTrade([id |-> IdAa, chartAttachments |-> None])},
     blobs |-> {}, blobSeq |-> 0],
    [trades |-> {StoredTrade([id |-> IdAa, chartAttachments |->
                   Some([beforeEntry |-> Some(BlobImage(1)), afterExit |-> None])])},
     blobs |-> {StoredBlob(1, IdAa)}, blobSeq |-> 1],
    [trades |-> {}, blobs |-> {StoredBlob(1, IdAa)}, blobSeq |-> 1] }

\* Page load: the module-level Maps are empty.
InitStores ==
  /\ \E db \in InitialDatabases :
       /\ trades = db.trades
       /\ blobs = db.blobs
       /\ blobSeq = db.blobSeq
  /\ taxData = {}
  /\ idMappings = << >>
  /\ tradesCache = {}
  /\ now = 0
  /\ calls = 0
  /\ cacheStale = FALSE
  /\ last = NoCall
  /\ localBlobs = {}

\* Page load without a session.
InitServices ==
  /\ session = Null
  /\ InitStores

\* The services alone: the AuthProvider is not mounted, nothing is converted
\* or rendered.
Init ==
  /\ InitServices
  /\ InitAuthIdle
  /\ InitConvertIdle
  /\ InitTaxIdle

\* The call `op(arg)` completes with outcome o: the stores become o.d.
\* cacheStale: the cache entry is the one from before the call and the call
\* changed the stored trades and reported success (changed), or it was stale.
Call(op, arg, o, changed) ==
  /\ calls' = calls + 1
  /\ trades' = o.d.trades
  /\ blobs' = o.d.blobs
  /\ taxData' = o.d.taxData
  /\ idMappings' = o.d.idMappings
  /\ tradesCache' = o.d.tradesCache
  /\ blobSeq' = o.d.blobSeq
  /\ cacheStale' = /\ o.d.tradesCache # {}
                   /\ o.d.tradesCache = tradesCache
                   /\ cacheStale \/ (changed /\ o.d.trades # trades)
  /\ last' = [op |-> op, arg |-> arg, val |-> o.val, threw |-> o.threw,
              unauth |-> o.unauth, faults |-> o.faults, reqs |-> o.reqs,
              note |-> o.note]
  /\ UNCHANGED << session, now >>
  /\ UNCHANGED << authVars, convertVars, taxVars >>

\* A call of a service that does not touch the local database.
Complete(op, arg, o, changed) ==
  /\ Call(op, arg, o, changed)
  /\ UNCHANGED localBlobs

\* A call of the dual-storage ChartImageService.
CompleteDual(op, arg, o) ==
  /\ Call(op, arg, o, FALSE)
  /\ localBlobs' = o.local

\* supabase.auth.signInWithPassword succeeded.
SignIn ==
  /\ calls < MaxCalls
  /\ session = Null
  /\ session' = User
  /\ UNCHANGED << trades, blobs, taxData, idMappings, tradesCache, now, blobSeq,
                  calls, cacheStale, last, localBlobs >>
  /\ UNCHANGED << authVars, convertVars, taxVars >>

\* AuthService.signOut succeeded: the session ends, the module state stays.
SignOut ==
  /\ calls < MaxCalls
  /\ session # Null
  /\ session' = Null
  /\ UNCHANGED << trades, blobs, taxData, idMappings, tradesCache, now, blobSeq,
                  calls, cacheStale, last, localBlobs >>
  /\ UNCHANGED << authVars, convertVars, taxVars >>

Tick ==
  /\ calls < MaxCalls
  /\ now + TickMs <= MaxNow
  /\ now' = now + TickMs
  /\ UNCHANGED << session, trades, blobs, taxData, idMappings, tradesCache,
                  blobSeq, calls, cacheStale, last, localBlobs >>
  /\ UNCHANGED << authVars, convertVars, taxVars >>

\* Trades handed to saveAllTrades ("Aa" and the UUID-shaped id, without
\* attachments), and the lists of them.
ListTrades ==
  {t \in InputTrades : t.id \in {IdAa, IdZero} /\ t.chartAttachments = None}
TradeLists == UNION { [1..n -> ListTrades] : n \in 0..MaxList }

GetAllTrades ==
  /\ calls < MaxCalls
  /\ \E o \in getAllTrades(Store) : Complete("getAllTrades", << >>, o, FALSE)

GetTrade ==
  /\ calls < MaxCalls
  /\ \E id \in TradeIds : \E o \in getTrade(id, Store) :
       Complete("getTrade", id, o, FALSE)

SaveTrade ==
  /\ calls < MaxCalls
  /\ \E t \in InputTrades : \E o \in saveTrade(t, Store) :
       Complete("saveTrade", t, o, o.val = VBool(TRUE))

SaveAllTrades ==
  /\ calls < MaxCalls
  /\ \E list \in TradeLists : \E o \in saveAllTrades(list, Store) :
       Complete("saveAllTrades", list, o, o.val = VBool(TRUE))

DeleteTrade ==
  /\ calls < MaxCalls
  /\ \E id \in TradeIds : \E o \in deleteTrade(id, Store) :
       Complete("deleteTrade", id, o, o.val = VBool(TRUE))

ClearAllData ==
  /\ calls < MaxCalls
  /\ \E o \in clearAllData(Store) :
       Complete("clearAllData", << >>, o, o.val = VBool(TRUE))

GetTaxData ==
  /\ calls < MaxCalls
  /\ \E y \in Years : \E o \in getTaxData(y, Store) :
       Complete("getTaxData", y, o, FALSE)

SaveTaxData ==
  /\ calls < MaxCalls
  /\ \E y \in Years : \E data \in TaxPayloads : \E o \in saveTaxData(y, data, Store) :
       Complete("saveTaxData", << y, data >>, o, FALSE)

\* Blob uploads made directly, for the trade "Aa": base64 text or not.
SaveChartImageBlob ==
  /\ calls < MaxCalls
  /\ \E b \in BlobIds : \E data \in {"base64", "not base64"} :
       \E o \in saveChartImageBlob(
                  [id |-> b, trade_id |-> convertTradeIdToUUIDMemo[IdAa],
                   data |-> data], Store) :
         Complete("saveChartImageBlob", << b, data >>, o, FALSE)

GetChartImageBlob ==
  /\ calls < MaxCalls
  /\ \E b \in BlobIds : \E o \in getChartImageBlob(b, Store) :
       Complete("getChartImageBlob", b, o, FALSE)

GetAllChartImageBlobs ==
  /\ calls < MaxCalls
  /\ \E o \in getAllChartImageBlobs(Store) :
       Complete("getAllChartImageBlobs", << >>, o, FALSE)

DeleteChartImageBlob ==
  /\ calls < MaxCalls
  /\ \E b \in BlobIds : \E o \in deleteChartImageBlob(b, Store) :
       Complete("deleteChartImageBlob", b, o, FALSE)

AttachChartImage ==
  /\ calls < MaxCalls
  /\ \E id \in TradeIds : \E file \in Files :
       /\ blobSeq < MaxBlobs
       /\ \E o \in attachChartImage(id, file, Store) :
            Complete("attachChartImage", [tradeId |-> id, file |-> file], o, FALSE)

DeleteChartImage ==
  /\ calls < MaxCalls
  /\ \E image \in Images : \E o \in deleteChartImage(image, Store) :
       Complete("deleteChartImage", image, o, FALSE)

CleanupOrphanedBlobs ==
  /\ calls < MaxCalls
  /\ \E o \in cleanupOrphanedBlobs(Store) :
       Complete("cleanupOrphanedBlobs", << >>, o, FALSE)

CleanupOrphanedAttachments ==
  /\ calls < MaxCalls
  /\ \E o \in cleanupOrphanedAttachments(Store) :
       Complete("cleanupOrphanedAttachments", << >>, o, FALSE)

DualAttachChartImage ==
  /\ calls < MaxCalls
  /\ \E id \in {IdAa} : \E file \in Files :
       /\ blobSeq < MaxBlobs
       /\ \E o \in dualAttachChartImage(id, file, Store, localBlobs) :
            CompleteDual("dual attachChartImage", [tradeId |-> id, file |-> file], o)

DualGetChartImageDataUrl ==
  /\ calls < MaxCalls
  /\ \E image \in Images : \E o \in dualGetChartImageDataUrl(image, Store, localBlobs) :
       CompleteDual("dual getChartImageDataUrl", image, o)

DualDeleteChartImage ==
  /\ calls < MaxCalls
  /\ \E image \in Images : \E o \in dualDeleteChartImage(image, Store, localBlobs) :
       CompleteDual("dual deleteChartImage", image, o)

Next ==
  \/ SignIn
  \/ SignOut
  \/ Tick
  \/ GetAllTrades
  \/ GetTrade
  \/ SaveTrade
  \/ SaveAllTrades
  \/ DeleteTrade
  \/ ClearAllData
  \/ GetTaxData
  \/ SaveTaxData
  \/ SaveChartImageBlob
  \/ GetChartImageBlob
  \/ GetAllChartImageBlobs
  \/ DeleteChartImageBlob
  \/ AttachChartImage
  \/ DeleteChartImage
  \/ CleanupOrphanedBlobs
  \/ CleanupOrphanedAttachments
  \/ DualAttachChartImage
  \/ DualGetChartImageDataUrl
  \/ DualDeleteChartImage

Spec == Init /\ [][Next]_vars

\* Every SupabaseService operation, within one cache lifetime.
NextSupabase ==
  \/ SignIn
  \/ SignOut
  \/ GetAllTrades
  \/ GetTrade
  \/ SaveTrade
  \/ SaveAllTrades
  \/ DeleteTrade
  \/ ClearAllData
  \/ GetTaxData
  \/ SaveTaxData
  \/ SaveChartImageBlob
  \/ GetChartImageBlob
  \/ GetAllChartImageBlobs
  \/ DeleteChartImageBlob

SupabaseSpec == Init /\ [][NextSupabase]_vars

\* The trades table, its cache and the clock.
NextTrades ==
  \/ SignIn
  \/ SignOut
  \/ Tick
  \/ GetAllTrades
  \/ GetTrade
  \/ SaveTrade
  \/ SaveAllTrades
  \/ DeleteTrade
  \/ ClearAllData

TradesSpec == Init /\ [][NextTrades]_vars

\* The chart-image pipeline: ChartImageService over the trades it serves,
\* within one cache lifetime.
NextImages ==
  \/ SignIn
  \/ SignOut
  \/ SaveTrade
  \/ DeleteTrade
  \/ AttachChartImage
  \/ DeleteChartImage
  \/ CleanupOrphanedBlobs
  \/ CleanupOrphanedAttachments

ImageSpec == Init /\ [][NextImages]_vars

\* The dual-storage ChartImageService: the local database and the cloud.
NextDual ==
  \/ SignIn
  \/ SignOut
  \/ DualAttachChartImage
  \/ DualGetChartImageDataUrl
  \/ DualDeleteChartImage

DualSpec == Init /\ [][NextDual]_vars

\* convertToUUID(id) for an id of the caller's.
ConvertToUUID ==
  /\ rowUuid = << >>
  /\ rowUuid' = convertToUUID(legacyId)
  /\ UNCHANGED << legacyId, serviceVars, authVars, taxVars >>

\* convertToUUID applied to a row id it made (a trade read back without its
\* legacy id is saved again under its row id).
ConvertRowId ==
  /\ rowUuid # << >>
  /\ legacyId # rowUuid
  /\ legacyId' = rowUuid
  /\ rowUuid' = convertToUUID(rowUuid)
  /\ UNCHANGED << serviceVars, authVars, taxVars >>

InitConvert ==
  /\ InitServices
  /\ trades = {}
  /\ blobs = {}
  /\ InitAuthIdle
  /\ InitTaxIdle
  /\ legacyId \in ConvertInputs
  /\ rowUuid = << >>

NextConvert ==
  \/ ConvertToUUID
  \/ ConvertRowId

ConvertSpec == InitConvert /\ [][NextConvert]_vars

\* --------------------------------------------------------------------------
\* AuthProvider: the state machine
\* --------------------------------------------------------------------------

\* Right after the first render's effects: initializeAuth awaits getSession,
\* the fallback timer is armed, the listener is subscribed.  The browser may
\* hold a session from an earlier visit.
InitAuth ==
  /\ session \in {Null, User}
  /\ InitStores
  /\ trades = {}
  /\ blobs = {}
  /\ InitConvertIdle
  /\ InitTaxIdle
  /\ authState = InitialAuthState
  /\ initializing = TRUE
  /\ listenerInitializing = TRUE
  /\ mounted = TRUE
  /\ fallbackTimer = "armed"
  /\ initPc = "getSession"
  /\ authEvents = << >>
  /\ authPc = "idle"
  /\ authResult = "none"
  /\ authCalls = 0

\* getSession settles and initializeAuth runs to its end.
InitializeAuth ==
  /\ mounted
  /\ initPc = "getSession"
  /\ \E p \in InitializeAuthPaths :
       /\ initPc' = p.pc
       /\ authState' = p.state
  /\ initializing' = FALSE
  /\ UNCHANGED << listenerInitializing, mounted, fallbackTimer, authEvents,
                  authPc, authResult, authCalls >>
  /\ UNCHANGED << serviceVars, convertVars, taxVars >>

\* The 2 s fallback timer fires.
FallbackTimer ==
  /\ mounted
  /\ fallbackTimer = "armed"
  /\ fallbackTimer' = "fired"
  /\ LET after == fallbackTimerFired([authState |-> authState,
                                      initializing |-> initializing])
     IN  /\ authState' = after.authState
         /\ initializing' = after.initializing
  /\ UNCHANGED << listenerInitializing, mounted, initPc, authEvents, authPc,
                  authResult, authCalls >>
  /\ UNCHANGED << serviceVars, convertVars, taxVars >>

\* The second effect runs again after `initializing` changed: the listener
\* is subscribed anew with the current value, and supabase sends the new
\* subscriber INITIAL_SESSION.
Resubscribe ==
  /\ mounted
  /\ listenerInitializing # initializing
  /\ listenerInitializing' = initializing
  /\ authEvents' = Append(authEvents, AuthEvent("INITIAL_SESSION", session))
  /\ UNCHANGED << authState, initializing, mounted, fallbackTimer, initPc,
                  authPc, authResult, authCalls >>
  /\ UNCHANGED << serviceVars, convertVars, taxVars >>

\* The listener receives the oldest pending event.
HandleAuthEvent ==
  /\ mounted
  /\ authEvents # << >>
  /\ authEvents' = Tail(authEvents)
  /\ authState' = onAuthStateChange(Head(authEvents), authState, listenerInitializing)
  /\ UNCHANGED << initializing, listenerInitializing, mounted, fallbackTimer,
                  initPc, authPc, authResult, authCalls >>
  /\ UNCHANGED << serviceVars, convertVars, taxVars >>

\* signIn(email, password) up to its await.
AuthSignIn ==
  /\ mounted
  /\ authPc = "idle"
  /\ authCalls < MaxAuthCalls
  /\ authCalls' = authCalls + 1
  /\ authPc' = "signIn"
  /\ authState' = StartLoading(authState)
  /\ UNCHANGED << initializing, listenerInitializing, mounted, fallbackTimer,
                  initPc, authEvents, authResult >>
  /\ UNCHANGED << serviceVars, convertVars, taxVars >>

\* AuthService.signIn returns: { error } (it catches what the backend
\* throws), or the session begins and SIGNED_IN is emitted.
AuthSignInReturns ==
  /\ mounted
  /\ authPc = "signIn"
  /\ authPc' = "idle"
  /\ \/ /\ authResult' = "error"
        /\ authState' = [authState EXCEPT !.loading = FALSE,
                                          !.error = "Invalid login credentials"]
        /\ UNCHANGED << session, authEvents >>
     \/ /\ authResult' = "ok"
        /\ session' = User
        /\ authEvents' = Append(authEvents, AuthEvent("SIGNED_IN", User))
        /\ UNCHANGED authState
  /\ UNCHANGED << initializing, listenerInitializing, mounted, fallbackTimer,
                  initPc, authCalls >>
  /\ UNCHANGED << dataVars, convertVars, taxVars >>

\* signOut() up to its await.
AuthSignOut ==
  /\ mounted
  /\ authPc = "idle"
  /\ authCalls < MaxAuthCalls
  /\ authCalls' = authCalls + 1
  /\ authPc' = "signOut"
  /\ authState' = StartLoading(authState)
  /\ UNCHANGED << initializing, listenerInitializing, mounted, fallbackTimer,
                  initPc, authEvents, authResult >>
  /\ UNCHANGED << serviceVars, convertVars, taxVars >>

\* AuthService.signOut returns.  It never throws: a failed backend sign-out
\* comes back as { error }, which signOut does not read, so its catch is
\* never entered.  A successful one ends the session and emits SIGNED_OUT.
AuthSignOutReturns ==
  /\ mounted
  /\ authPc = "signOut"
  /\ authPc' = "idle"
  /\ \/ /\ authResult' = "error"
        /\ UNCHANGED << session, authEvents >>
     \/ /\ authResult' = "ok"
        /\ session' = Null
        /\ authEvents' = Append(authEvents, AuthEvent("SIGNED_OUT", Null))
  /\ UNCHANGED << authState, initializing, listenerInitializing, mounted,
                  fallbackTimer, initPc, authCalls >>
  /\ UNCHANGED << dataVars, convertVars, taxVars >>

\* Events the backend client emits by itself while a session lasts.
BackendEvent ==
  /\ mounted
  /\ session # Null
  /\ authCalls < MaxAuthCalls
  /\ authCalls' = authCalls + 1
  /\ \E event \in {"TOKEN_REFRESHED", "USER_UPDATED"} :
       authEvents' = Append(authEvents, AuthEvent(event, session))
  /\ UNCHANGED << authState, initializing, listenerInitializing, mounted,
                  fallbackTimer, initPc, authPc, authResult >>
  /\ UNCHANGED << serviceVars, convertVars, taxVars >>

\* The effects' cleanups: clearTimeout(fallbackTimer), unsubscribe().
Unmount ==
  /\ mounted
  /\ mounted' = FALSE
  /\ fallbackTimer' = IF fallbackTimer = "armed" THEN "cleared" ELSE fallbackTimer
  /\ authEvents' = << >>
  /\ UNCHANGED << authState, initializing, listenerInitializing, initPc, authPc,
                  authResult, authCalls >>
  /\ UNCHANGED << serviceVars, convertVars, taxVars >>

NextAuth ==
  \/ InitializeAuth
  \/ FallbackTimer
  \/ Resubscribe
  \/ HandleAuthEvent
  \/ AuthSignIn
  \/ AuthSignInReturns
  \/ AuthSignOut
  \/ AuthSignOutReturns
  \/ BackendEvent
  \/ Unmount

\* The browser runs a due timer, delivers emitted events, re-runs effects
\* and settles the sign-in and sign-out requests; getSession may never
\* settle.
AuthFairness ==
  /\ WF_vars(FallbackTimer)
  /\ WF_vars(Resubscribe)
  /\ WF_vars(HandleAuthEvent)
  /\ WF_vars(AuthSignInReturns)
  /\ WF_vars(AuthSignOutReturns)

AuthSpec == InitAuth /\ [][NextAuth]_vars /\ AuthFairness

\* TaxAnalytics renders the trades of the selected year.
RenderTaxAnalytics ==
  /\ drawdown = None
  /\ drawdown' = Some(drawdownFigure(yearTrades))
  /\ UNCHANGED << yearTrades, serviceVars, authVars, convertVars >>

InitTax ==
  /\ InitServices
  /\ trades = {}
  /\ blobs = {}
  /\ InitAuthIdle
  /\ InitConvertIdle
  /\ yearTrades \in TaxTradeLists
  /\ drawdown = None

NextTax == RenderTaxAnalytics

TaxSpec == InitTax /\ [][NextTax]_vars

\* --------------------------------------------------------------------------
\* Properties
\* --------------------------------------------------------------------------

SupabaseOps == {"getAllTrades", "getTrade", "saveTrade", "saveAllTrades",
                "deleteTrade", "clearAllData", "getTaxData", "saveTaxData",
                "saveChartImageBlob", "getChartImageBlob",
                "getAllChartImageBlobs", "deleteChartImageBlob"}

\* false for writes and deletes, null for single reads, [] for list reads.
FailureValue(op) ==
  IF op \in {"getAllTrades", "getAllChartImageBlobs"} THEN VList({})
  ELSE IF op \in {"getTrade", "getChartImageBlob", "getTaxData"} THEN VNull
  ELSE VBool(FALSE)

\* C1 as stated: a SupabaseService call never throws to its caller, and it
\* returns its failure value whenever the user id was missing or any backend
\* request failed or threw.
C1_EveryFailureReturnsFailureValue ==
  last.op \in SupabaseOps =>
    /\ ~last.threw
    /\ (last.unauth \/ last.faults # {}) => last.val = FailureValue(last.op)

\* The failures that decide the result: all of them, except an error answer
\* to the existence check of saveTrade.
DecisiveFaults ==
  IF last.op = "saveTrade" THEN last.faults \ {<< "trades", "select", "error" >>}
  ELSE last.faults

\* C1 amended: a SupabaseService call never throws to its caller, and it
\* returns its failure value whenever the user id was missing or a backend
\* request failed or threw, other than saveTrade's existence check answering
\* with an error (saveTrade then takes the row for absent and the insert
\* decides).
C1_FailuresCaught ==
  last.op \in SupabaseOps =>
    /\ ~last.threw
    /\ (last.unauth \/ DecisiveFaults # {}) => last.val = FailureValue(last.op)

\* C1 witness: saveAllTrades deleted the user's rows, the insert that followed
\* was rejected, and the call returned false.
C1_Witness ==
  /\ last.op = "saveAllTrades"
  /\ << "trades", "insert", "throw" >> \in last.faults
  /\ ~last.threw
  /\ last.val = VBool(FALSE)

\* The blob row attachChartImage reported as saved by the last call.
AttachedBlobRows ==
  {r \in blobs : r.id = TheOne(TheOne(last.val.o.chartImage).blobId)}

\* C2: after attachChartImage(tradeId, ..) succeeds, the trade_id on the blob
\* row it wrote is SupabaseService's convertToUUID(tradeId) and is the id of a
\* row of table trades.
C2_BlobTradeIdIsTradeRowId ==
  (last.op = "attachChartImage" /\ last.val.o.success) =>
    \A r \in AttachedBlobRows :
      /\ r.trade_id = convertToUUID(last.arg.tradeId)
      /\ \E t \in trades : t.id = r.trade_id

\* C3: once saveTrade, saveAllTrades, deleteTrade or clearAllData has changed
\* the stored trades and returned true, the next getAllTrades call does not
\* answer from a cache entry filled before that change.
C3_NoReadFromStaleCache ==
  cacheStale => \A o \in getAllTrades(Store) : "cache" \notin o.note

\* The trade t as a read returns it when it is mirrored faithfully: the same
\* id and fields, an absent chartAttachments coerced to {}.
Mirrored(t) == [t EXCEPT !.chartAttachments = OrEmptyObject(@)]

\* C4: after saveTrade(t) has returned true, a getTrade(t.id) that finds a
\* trade returns t (its own id, its fields up to the coercion of an absent
\* chartAttachments), and a getAllTrades that reads the table lists t.
C4_SavedTradeReadsBack ==
  (last.op = "saveTrade" /\ last.val = VBool(TRUE)) =>
    /\ \A o \in getTrade(last.arg.id, Store) :
         o.val # VNull => o.val.o = Mirrored(last.arg)
    /\ \A o \in getAllTrades(Store) :
         (~o.unauth /\ o.faults = {}) => Mirrored(last.arg) \in o.val.items

\* A stored attachment slot that refers to a blob absent from blob storage.
Dangling(slot) == isOrphaned(slot, {b.id : b \in blobs})

\* C5: a cleanupOrphanedAttachments call keeps every stored trade, keeps each
\* of its beforeEntry / afterExit attachments that is not a blob reference
\* without a blob in storage, and writes nothing when no trade has such a
\* dangling reference.
C5_CleanupRemovesOnlyDanglingRefs ==
  [][ (calls' = calls + 1 /\ last'.op = "cleanupOrphanedAttachments") =>
        /\ \A r \in trades :
             /\ \E r2 \in trades' : r2.id = r.id
             /\ \A r2 \in trades' :
                  r2.id = r.id =>
                    LET old == TheOne(r.chart_attachments)
                        new == TheOne(r2.chart_attachments)
                    IN  /\ ~Dangling(old.beforeEntry) => new.beforeEntry = old.beforeEntry
                        /\ ~Dangling(old.afterExit) => new.afterExit = old.afterExit
        /\ (\A r \in trades : ~Dangling(TheOne(r.chart_attachments).beforeEntry)
                              /\ ~Dangling(TheOne(r.chart_attachments).afterExit))
             => last'.reqs = {}
    ]_vars

\* The ids under which a stored trade is known: its row id, the id reads
\* give it, and what convertTradeIdToUUID makes of these.
TradeIdsOfRow(r, idm) ==
  LET ids == {r.id, dbRowToTrade(r, idm).id}
  IN  ids \cup {convertTradeIdToUUIDMemo[id] : id \in ids}

\* A blob whose trade_id matches no stored trade.
OrphanBlob(b, rows, idm) == \A r \in rows : b.trade_id \notin TradeIdsOfRow(r, idm)

\* C6: when cleanupOrphanedBlobs returns with errors = 0 for an authenticated
\* user, no blob is left whose trade_id matches no stored trade, every blob it
\* deleted was such an orphan, and `cleaned` is the number of blobs deleted.
C6_CleanupLeavesNoOrphanBlob ==
  [][ (calls' = calls + 1 /\ last'.op = "cleanupOrphanedBlobs"
        /\ ~last'.unauth /\ last'.val.o.errors = 0) =>
        /\ \A b \in blobs' : ~OrphanBlob(b, trades', idMappings')
        /\ \A b \in blobs \ blobs' : OrphanBlob(b, trades, idMappings)
        /\ last'.val.o.cleaned = Cardinality(blobs \ blobs')
    ]_vars

\* C7: attachChartImage returns success: true only if there was a session,
\* the trade's row was in table trades and the call inserted the blob row
\* with id = chartImage.blobId; when the insert request was issued and no
\* blob row was inserted, it returns success: false with the error
\* 'Failed to save image to cloud storage'.
C7_AttachSuccessMeansBlobSaved ==
  [][ (calls' = calls + 1 /\ last'.op = "attachChartImage") =>
        /\ last'.val.o.success =>
             /\ session = User
             /\ \E r \in trades : /\ r.id = convertToUUIDMemo[last'.arg.tradeId]
                                  /\ r.user_id = session
             /\ \E b \in blobs' \ blobs :
                  b.id = TheOne(TheOne(last'.val.o.chartImage).blobId)
        /\ (<< "chart_image_blobs", "insert" >> \in last'.reqs /\ blobs' = blobs) =>
             /\ ~last'.val.o.success
             /\ last'.val.o.error = "Failed to save image to cloud storage"
    ]_vars

\* C7 witness: attachChartImage returned success: true and the blob row it
\* names is in storage.
C7_Witness ==
  /\ last.op = "attachChartImage"
  /\ last.val.o.success
  /\ \E b \in blobs : b.id = TheOne(TheOne(last.val.o.chartImage).blobId)

\* C8: attachChartImage called without a session, or with a file that
\* validateImageFile rejects, returns success: false with a non-empty error
\* and issues no write request: tables trades and chart_image_blobs stay as
\* they were.
C8_AttachRejectsWithoutWriting ==
  [][ (calls' = calls + 1 /\ last'.op = "attachChartImage"
        /\ (session = Null \/ ~validateImageFile(last'.arg.file).isValid)) =>
        /\ ~last'.val.o.success
        /\ last'.val.o.error # ""
        /\ last'.reqs = {}
        /\ trades' = trades
        /\ blobs' = blobs
    ]_vars

\* C8 witness: a signed-in user's attachChartImage with a file that
\* validateImageFile rejects returned success: false.
C8_Witness ==
  /\ last.op = "attachChartImage"
  /\ session = User
  /\ ~validateImageFile(last.arg.file).isValid
  /\ ~last.val.o.success

\* C9: when deleteChartImage has returned true for an image with storage
\* 'blob' and a blobId, no blob with that id is in blob storage.
C9_DeletedImageIsGone ==
  (last.op = "deleteChartImage" /\ last.val = VBool(TRUE)
     /\ last.arg.storage = "blob" /\ last.arg.blobId # None) =>
    \A b \in blobs : b.id # TheOne(last.arg.blobId)

\* C10: no operation sends trade, chart-image or tax data to the backend: no
\* call issues an insert, update or upsert request.
C10_NoDataLeavesTheBrowser ==
  \A q \in last.reqs : q[2] \notin {"insert", "update", "upsert"}

\* --- C11 ---------------------------------------------------------------

\* A call of the dual-storage getChartImageDataUrl for a blob image has just
\* completed.
DualGetDone ==
  /\ calls' = calls + 1
  /\ last'.op = "dual getChartImageDataUrl"
  /\ last'.arg.storage = "blob"
  /\ last'.arg.blobId # None

HasLocal(local, blobId) == \E b \in local : b.id = blobId

\* The next call for the same image, made right after this one, is answered
\* from the local database without asking the cloud.
NextCallIsLocal ==
  \A o \in dualGetChartImageDataUrl(last'.arg, Store', localBlobs') :
    /\ o.val = ObjectUrl(TheOne(last'.arg.blobId))
    /\ "cloud asked" \notin o.note

DualAttachDone ==
  /\ calls' = calls + 1
  /\ last'.op = "dual attachChartImage"

\* createChartImage returned a record: it drew the next blob id.
ImageCreated == blobSeq' = blobSeq + 1

CloudSaveAttempted ==
  \/ last'.reqs # {}
  \/ last'.note \cap {"cloud saved", "cloud failed"} # {}

C13_ConvertToUUIDIsIdempotent ==
  rowUuid # << >> =>
    /\ uuidRegexTest(rowUuid)
    /\ uuidRegexTest(legacyId) => rowUuid = legacyId
    /\ convertToUUID(rowUuid) = rowUuid

\* C13 witness: a legacy id, not UUID-shaped, has been converted to a UUID
\* that differs from it.
C13_Witness ==
  /\ rowUuid # << >>
  /\ ~uuidRegexTest(legacyId)
  /\ Len(legacyId) = MaxIdLen
  /\ rowUuid # legacyId
  /\ Len(rowUuid) = 36

\* --- C14 ---------------------------------------------------------------

\* C14: while the AuthProvider stays mounted, authState.loading eventually
\* is false with initialization marked finished, whatever getSession does
\* (a session, none, an error, a rejection, or never settling).
C14_AuthLoadingEnds ==
  <>(~mounted \/ (~authState.loading /\ ~initializing))

\* C14 witness: getSession has not settled and the fallback timer has ended
\* the loading state.
C14_Witness ==
  /\ mounted
  /\ initPc = "getSession"
  /\ fallbackTimer = "fired"
  /\ ~authState.loading
  /\ ~initializing

\* --- C16 ---------------------------------------------------------------

\* C16: a signOut whose backend sign-out failed ends with loading = false
\* and error = 'Failed to sign out', and the SIGNED_OUT event of a
\* successful one sets user = null, session = null, loading = false,
\* error = null.
C16_SignOutEndsLoading ==
  [][ /\ (authPc = "signOut" /\ authPc' = "idle" /\ authResult' = "error") =>
           /\ authState'.loading = FALSE
           /\ authState'.error = "Failed to sign out"
      /\ (/\ mounted'
          /\ authEvents # << >>
          /\ authEvents' = Tail(authEvents)
          /\ Head(authEvents).event = "SIGNED_OUT") =>
           authState' = SignedOutState
    ]_vars

\* --- C15 ---------------------------------------------------------------

SetMax(S) == CHOOSE x \in S : \A y \in S : y <= x

\* The largest peak-to-trough decline of a sequence of cumulative PF values.
MaxPeakToTrough(pfs) ==
  IF pfs = << >> THEN 0
  ELSE SetMax({ SetMax({pfs[j] : j \in 1..i}) - pfs[i] : i \in 1..Len(pfs) })

NeverFalls(pfs) == \A i \in 1..Len(pfs) : \A j \in 1..i : pfs[j] <= pfs[i]

\* C15: the drawdown figure is the maximum drawdown of the cumulative PF of
\* the year's closed or partial trades in date order, and it is 0 exactly
\* when cumulative PF never falls below an earlier value.
C15_DrawdownIsMaxPeakToTrough ==
  drawdown # None =>
    /\ TheOne(drawdown) = MaxPeakToTrough(cummPfs(yearTrades))
    /\ TheOne(drawdown) = 0 <=> NeverFalls(cummPfs(yearTrades))

\* --- C17 ---------------------------------------------------------------

\* The row of the trades table that holds trade t's data under t's row id.
StoredAs(t, table) ==
  \E r \in table : /\ r.id = convertToUUIDMemo[t.id]
                   /\ r.chart_attachments = OrEmptyObject(t.chartAttachments)

\* C17: two successful saveTrade calls in a row for trades with different
\* ids write two different rows, and after the second the trade saved first
\* is still stored with its own data.
C17_SaveTradeKeepsOtherTrades ==
  [][ (/\ calls' = calls + 1
       /\ last.op = "saveTrade" /\ last.val = VBool(TRUE)
       /\ last'.op = "saveTrade" /\ last'.val = VBool(TRUE)
       /\ last.arg.id # last'.arg.id) =>
        /\ convertToUUIDMemo[last.arg.id] # convertToUUIDMemo[last'.arg.id]
        /\ StoredAs(last.arg, trades')
        /\ StoredAs(last'.arg, trades')
    ]_vars

====
